---- MODULE Spec2Model ----
(***************************************************************************)
(* gcp-rss-notifier: the process-channel function (processChannel,        *)
(* removeOldItems, publishItem) and the process-item function             *)
(* (processItem, notify, save), with the Firestore items collection, the  *)
(* Pub/Sub item topic and the chat webhook they share.                    *)
(***************************************************************************)
EXTENDS Integers, Sequences, FiniteSets, TLC

\* ---------------------------------------------------------------- bounds
MaxFeedLen == 2      \* longest parsed feed (feed.Items)
MaxPolls == 2        \* processChannel invocations in one behaviour
MaxAttempts == 2     \* processItem invocations in one behaviour
MaxSlack == 3        \* len(text) starts this far below the limit of notify
MaxWide == 2         \* two-byte characters in a text
MaxCopies == 1       \* copies of a message in the topic when one more is taken
MaxDelivered == 2    \* deliveries of an entry the webhook tells apart
MaxChannels == 2     \* documents of the channels collection

\* ---------------------------------------------------------------- values
Chans == {"c1"}                \* process-channel instance
Procs == {"p1"}                \* process-item instance
Ids == {"a", "b"}              \* gofeed.Item.GUID
Titles == {"t1", "t2"}         \* gofeed.Item.Title
NotifyURL == "hook"            \* ChannelConfig.NotifyURL of the one channel
FeedTitle == "Blog"            \* the parsed feed's display name (feed.Title)
Links == {"l"}                 \* gofeed.Item.Link
Contents == {"body"}           \* gofeed.Item.Content
Updates == {"u"}               \* gofeed.Item.Updated
StatusOK == 200                \* the only status notify accepts
Statuses == {200, 201, 500}    \* resp.StatusCode values the webhook answers

\* gofeed.Item: two entries may share a GUID and differ in Title.
Entries ==
  {e \in [id : Ids, title : Titles, link : Links, content : Contents,
          updated : Updates] : e.id = "a" \/ e.title = "t1"}
Feeds == UNION {[1..n -> Entries] : n \in 0..MaxFeedLen}
\* a document that does not exist: its snapshot has no data (no fields).
NoRecord == [f \in {} |-> ""]

\* error values (error == nil is "nil")
Nil == [kind |-> "nil", k |-> 0, n |-> 0]
Err(kind) == [kind |-> kind, k |-> 0, n |-> 0]
\* fmt.Errorf("response status: %s, %v", resp.Status, ...)
StatusErr(code) == [kind |-> "response status", k |-> code, n |-> 0]
\* fmt.Errorf("%d of %d messages did not publish successfuly", ...)
AggregateErr(k, n) == [kind |-> "did not publish", k |-> k, n |-> n]

VARIABLES
  store,        \* Firestore items collection: GUID -> document or NoRecord
  topic,        \* Pub/Sub item topic: FeedItem -> number of copies in flight
  delivered,    \* webhook: GUID -> number of POSTs answered 200
  polls,        \* processChannel invocations started
  attempts,     \* processItem invocations started
  cpc,          \* processChannel: position of each instance
  feed,         \* processChannel: feed.Items
  items,        \* publishItem: items (removeOldItems' notFound)
  tasks,        \* publishItem: dispatch i's state, in loop order
  wg,           \* publishItem: sync.WaitGroup counter
  totalErrors,  \* publishItem: totalErrors
  pubErr,       \* publishItem's return value
  cret,         \* processChannel's return value
  ppc,          \* processItem: position of each instance
  pevent,       \* processItem: the event's message data (msg.Message.Data)
  pitem,        \* processItem: item
  pret,         \* processItem's return value
  pposts,       \* processItem: http.Post calls made by this invocation
  pwrites,      \* processItem: DocumentRef.Set calls made by this invocation
  call,         \* the function applied on its own: "none" in the pipeline
  arg,          \* its argument
  res,          \* its results, one for each application
  lpc,          \* listChannels: position ("none" outside an invocation)
  ldocs,        \* listChannels: the documents the iterator yields, in order
  lnext,        \* listChannels: index of the document iter.Next yields next
  lres,         \* listChannels: publishChannel's calls, channel and error
  llog,         \* listChannels: the errors logged by log.Printf
  lresp,        \* listChannels: the response body written
  ctopic        \* Pub/Sub channel topic: the messages published, in order

vars == <<store, topic, delivered, polls, attempts, cpc, feed, items,
          tasks, wg, totalErrors, pubErr, cret, ppc, pevent, pitem, pret,
          pposts, pwrites, call, arg, res, lpc, ldocs, lnext, lres, llog,
          lresp, ctopic>>
chanVars == <<cpc, feed, items, tasks, wg, totalErrors, pubErr, cret, polls>>
procVars == <<ppc, pevent, pitem, pret, pposts, pwrites, attempts>>
pureVars == <<call, arg, res>>
listVars == <<lpc, ldocs, lnext, lres, llog, lresp, ctopic>>
pipeVars == <<store, topic, delivered, chanVars, procVars>>

\* the FeedItem publishItem builds and marshals (list-channels/function.go
\* lines 135-142 and 183-190): process-channel's struct has no Feed field.
FeedItem(notifyURL, item) ==
  [notify |-> notifyURL, id |-> item.id, title |-> item.title,
   content |-> item.content, link |-> item.link, updated |-> item.updated]
Msgs == {FeedItem(NotifyURL, e) : e \in Entries}
NoEvent == [f \in {} |-> ""]

\* json.Unmarshal into process-item's FeedItem (process-item/function.go
\* lines 37-45 and 59-60): a key the message lacks leaves the zero value "".
Field(m, key) == IF key \in DOMAIN m THEN m[key] ELSE ""
Unmarshal(m) ==
  [notify |-> Field(m, "notify"), feed |-> Field(m, "feed"),
   id |-> Field(m, "id"), updated |-> Field(m, "updated"),
   link |-> Field(m, "link"), title |-> Field(m, "title"),
   content |-> Field(m, "content")]
\* item := FeedItem{}
NoItem == Unmarshal(NoEvent)

InitPipeline ==
  /\ store = [x \in Ids |-> NoRecord]
  /\ topic = [m \in Msgs |-> 0]
  /\ delivered = [x \in Ids |-> 0]
  /\ polls = 0
  /\ attempts = 0
  /\ cpc = [c \in Chans |-> "idle"]
  /\ feed = [c \in Chans |-> <<>>]
  /\ items = [c \in Chans |-> <<>>]
  /\ tasks = [c \in Chans |-> <<>>]
  /\ wg = [c \in Chans |-> 0]
  /\ totalErrors = [c \in Chans |-> 0]
  /\ pubErr = [c \in Chans |-> Nil]
  /\ cret = [c \in Chans |-> Nil]
  /\ ppc = [p \in Procs |-> "idle"]
  /\ pevent = [p \in Procs |-> NoEvent]
  /\ pitem = [p \in Procs |-> NoItem]
  /\ pret = [p \in Procs |-> Nil]
  /\ pposts = [p \in Procs |-> 0]
  /\ pwrites = [p \in Procs |-> 0]

\* no listChannels invocation
ListIdle ==
  /\ lpc = "none"
  /\ ldocs = <<>>
  /\ lnext = 1
  /\ lres = <<>>
  /\ llog = <<>>
  /\ lresp = ""
  /\ ctopic = <<>>

\* the deployed functions: no function is applied on its own.
Init ==
  /\ InitPipeline
  /\ call = "none"
  /\ arg = <<>>
  /\ res = <<>>
  /\ ListIdle

\* ------------------------------------------------- removeOldItems (pure)
Keys(its) == {its[i].id : i \in DOMAIN its}
Last(S) == CHOOSE i \in S : \A j \in S : j <= i

\* mutant: the first entry of a GUID wins.
ItemMap_FirstWins(its) ==
  [g \in Keys(its) |->
     its[CHOOSE i \in DOMAIN its :
           its[i].id = g /\ \A j \in DOMAIN its : its[j].id = g => i <= j]]

\* itemMap[item.GUID] = item over the range loop: the last entry of a GUID wins.
ItemMap(its) ==
  [g \in Keys(its) |-> its[Last({i \in DOMAIN its : its[i].id = g})]]


\* mutant: every snapshot is taken to have data.
Existing_All(st, ids) == ids

\* client.GetAll: the GUIDs whose snapshot has data (snap.Data() != nil).
Existing(st, ids) == {g \in ids : st[g] # NoRecord}

\* mutant: the delete is skipped.
DeleteFound_Skipped(m, found) == m
\* delete(itemMap, doc.ID) for every snapshot with data.
DeleteFound(m, found) == [g \in (DOMAIN m) \ found |-> m[g]]

\* mutant: nothing is deleted from itemMap.
RemainingItems_KeepsAll(its, st) == ItemMap(its)

\* the itemMap left when the loop over docs ends.
RemainingItems(its, st) ==
  DeleteFound(ItemMap(its), Existing(st, Keys(its)))

\* notFound: the values of itemMap in the order `range itemMap` yields them,
\* which Go leaves unspecified: every ordering is possible.
NotFoundOrders(m) ==
  {s \in [1..Cardinality(DOMAIN m) -> {m[g] : g \in DOMAIN m}] :
     \A g \in DOMAIN m : \E i \in DOMAIN s : s[i] = m[g]}

\* mutant: notFound is built from the input entries, one per entry.
NotFound_PerEntry(its, st) ==
  {SelectSeq(its, LAMBDA e : st[e.id] = NoRecord)}

\* removeOldItems' possible results for the input `its` and the store `st`.
NotFound(its, st) == NotFoundOrders(RemainingItems(its, st))

\* mutant: a read-modify-write that loses an increment made in between.
AtomicAddUint64_Lost(v, d) == IF v = 0 THEN d ELSE v

\* --------------------------------------------------- publishItem (pure)
AtomicAddUint64(v, d) == v + d
\* mutant: the join does not wait.
WaitGroupZero_NoWait(n) == TRUE

WaitGroupZero(n) == n = 0
PublishItemReturn(errs, n) == IF errs > 0 THEN AggregateErr(errs, n) ELSE Nil
\* mutant: publishItem's error is returned.
ProcessChannelReturn_Propagates(perr) == perr

\* processChannel line 166 calls publishItem as a statement and returns nil.
ProcessChannelReturn(perr) == Nil

\* mutant: every 2xx status is accepted.
StatusAccepted_Any2xx(code) == code >= 200 /\ code < 300

\* ------------------------------------------------------ notify, save (pure)
StatusAccepted(code) == code = StatusOK

\* mutant: a transport error is swallowed.
Notify_SwallowsTransportErr(outcome, code) ==
  IF outcome = "convertErr" THEN Err("failed converting to markdown")
  ELSE IF outcome = "transportErr" THEN Nil
  ELSE IF ~StatusAccepted(code) THEN StatusErr(code)
  ELSE Nil

\* mutant: the POST is made although the conversion failed.
NotifyPosts_PostsAnyway(outcome) == 1

\* mutant: a POST that fails in transport is made a second time.
NotifyPosts_Retries(outcome) ==
  IF outcome = "convertErr" THEN 0
  ELSE IF outcome = "transportErr" THEN 2 ELSE 1

\* the http.Post calls notify makes: none when htmlToMarkdown failed (the
\* return at line 80 precedes line 98), else the one at line 98.
NotifyPosts(outcome) == IF outcome = "convertErr" THEN 0 ELSE 1

\* notify's return value: lines 78-81 (convert), 98-101 (transport),
\* 103-106 (status), 108.
Notify(outcome, code) ==
  IF outcome = "convertErr" THEN Err("failed converting to markdown")
  ELSE IF outcome = "transportErr" THEN Err("error making http request")
  ELSE IF ~StatusAccepted(code) THEN StatusErr(code)
  ELSE Nil

\* the fields save writes (lines 170-176).
Record(item) ==
  [id |-> item.id, lastUpdate |-> item.updated, title |-> item.title,
   content |-> item.content, link |-> item.link]

\* mutant: the document is replaced by the fields given.
MergeAll_Replace(old, new) == new

\* firestore.MergeAll: the fields given are written, the document's other
\* fields are kept.
MergeAll(old, new) ==
  [f \in (DOMAIN old) \cup (DOMAIN new) |->
     IF f \in DOMAIN new THEN new[f] ELSE old[f]]

\* mutant: the write is acknowledged and nothing is stored.
Set_Dropped(st, item) == st

\* Doc(item.ID).Set(ctx, fields, firestore.MergeAll)
Set(st, item) == [st EXCEPT ![item.id] = MergeAll(@, Record(item))]

\* the Set calls save makes: none when firestore.NewClient failed (line 166),
\* else the one at line 170.
SaveWrites(outcome) == IF outcome = "clientErr" THEN 0 ELSE 1

\* mutant: the document is written although an error is returned.
Save_WritesOnError(st, item, outcome) ==
  IF outcome = "ok" THEN [store |-> Set(st, item), err |-> Nil]
  ELSE [store |-> Set(st, item), err |-> Err("failed writing to firestore")]

\* save: the store it leaves and the error it returns (lines 164-167,
\* 170-179, 182).
Save(st, item, outcome) ==
  IF outcome = "ok" THEN [store |-> Set(st, item), err |-> Nil]
  ELSE IF outcome = "clientErr"
       THEN [store |-> st, err |-> Err("firestore client error")]
       ELSE [store |-> st, err |-> Err("failed writing to firestore")]

\* the text notify assembles (line 84), as its pieces in order.
Assemble(item, text) ==
  <<item.feed, " ", "<", item.link, "|", item.title, ">", "\n\n", text>>

\* processItem wraps the error of the step that failed (lines 67, 72).
Wrap(prefix, e) == [e EXCEPT !.kind = prefix \o ": " \o @]

\* ------------------------------------------------------- processChannel
\* mutant: a failed dedup read is recorded and every entry is taken as new.
ProcessChannel_FailOpen(c) ==
  /\ cpc[c] = "idle"
  /\ polls < MaxPolls
  /\ polls' = polls + 1
  /\ \E outcome \in {"ok", "dataAsErr", "jsonErr", "feedErr",
                     "clientErr", "getAllErr"} :
       \/ /\ outcome = "ok"
          /\ \E f \in Feeds :
               /\ feed' = [feed EXCEPT ![c] = f]
               /\ \E nf \in NotFound(f, store) :
                    items' = [items EXCEPT ![c] = nf]
          /\ cpc' = [cpc EXCEPT ![c] = "publish"]
          /\ cret' = cret
       \/ /\ outcome = "getAllErr"
          /\ \E f \in Feeds :
               /\ feed' = [feed EXCEPT ![c] = f]
               /\ \E nf \in NotFoundOrders(ItemMap(f)) :
                    items' = [items EXCEPT ![c] = nf]
          /\ cret' = [cret EXCEPT ![c] = Err("failed processing items")]
          /\ cpc' = [cpc EXCEPT ![c] = "publish"]
       \/ /\ outcome \notin {"ok", "getAllErr"}
          /\ cret' = [cret EXCEPT ![c] =
                        Err(CASE outcome = "dataAsErr" -> "event.DataAs"
                              [] outcome = "jsonErr" -> "failed parsing JSON"
                              [] outcome = "feedErr" -> "failed parsing feed"
                              [] OTHER -> "failed processing items")]
          /\ cpc' = [cpc EXCEPT ![c] = "returned"]
          /\ UNCHANGED <<feed, items>>
  /\ UNCHANGED <<tasks, wg, totalErrors, pubErr>>
  /\ UNCHANGED <<store, topic, delivered, procVars, pureVars, listVars>>

\* lines 144-165 and 225-260: decode the event, fetch and parse the feed
\* (neither touches the store or the topic), then the dedup read.
ProcessChannelBody(c) ==
  /\ cpc[c] = "idle"
  /\ \E outcome \in {"ok", "dataAsErr", "jsonErr", "feedErr",
                     "clientErr", "getAllErr"} :
       \/ /\ outcome = "ok"
          /\ \E f \in Feeds :
               /\ feed' = [feed EXCEPT ![c] = f]
               /\ \E nf \in NotFound(f, store) :
                    items' = [items EXCEPT ![c] = nf]
          /\ cpc' = [cpc EXCEPT ![c] = "publish"]
          /\ cret' = cret
       \/ /\ outcome # "ok"
          /\ cret' = [cret EXCEPT ![c] =
                        Err(CASE outcome = "dataAsErr" -> "event.DataAs"
                              [] outcome = "jsonErr" -> "failed parsing JSON"
                              [] outcome = "feedErr" -> "failed parsing feed"
                              [] OTHER -> "failed processing items")]
          /\ cpc' = [cpc EXCEPT ![c] = "returned"]
          /\ UNCHANGED <<feed, items>>
  /\ UNCHANGED <<tasks, wg, totalErrors, pubErr>>
  /\ UNCHANGED <<store, topic, delivered, procVars, pureVars, listVars>>

\* one of the MaxPolls invocations of a behaviour
ProcessChannel(c) ==
  /\ polls < MaxPolls
  /\ polls' = polls + 1
  /\ ProcessChannelBody(c)

\* lines 166 and 172-180: publishItem is entered with notifyURL and items
\* only (feed is dead from here on); pubsub.NewClient, and on its failure
\* publishItem returns at once.
PublishItemNewClient(c) ==
  /\ cpc[c] = "publish"
  /\ \E ok \in BOOLEAN :
       IF ok
       THEN /\ cpc' = [cpc EXCEPT ![c] = "loop"]
            /\ UNCHANGED <<pubErr, cret>>
       ELSE /\ pubErr' = [pubErr EXCEPT ![c] = Err("pubsub.NewClient")]
            /\ cret' = [cret EXCEPT ![c] = ProcessChannelReturn(pubErr'[c])]
            /\ cpc' = [cpc EXCEPT ![c] = "returned"]
  /\ feed' = [feed EXCEPT ![c] = <<>>]
  /\ UNCHANGED <<items, tasks, wg, totalErrors, polls>>
  /\ UNCHANGED <<store, topic, delivered, procVars, pureVars, listVars>>

\* lines 182-214, one iteration: t.Publish, wg.Add(1), go func(result).
\* json.Marshal of a struct of strings cannot fail, so line 193 is dead.
PublishItemLoop(c) ==
  /\ cpc[c] = "loop"
  /\ Len(tasks[c]) < Len(items[c])
  /\ tasks' = [tasks EXCEPT ![c] = Append(@, "pending")]
  /\ wg' = [wg EXCEPT ![c] = @ + 1]
  /\ UNCHANGED <<cpc, feed, items, totalErrors, pubErr, cret, polls>>
  /\ UNCHANGED <<store, topic, delivered, procVars, pureVars, listVars>>

\* mutant: the first failure ends the fan-out (an errgroup-style abort).
PublishResult_Aborts(c, i, acked) ==
  /\ i \in DOMAIN tasks[c]
  /\ tasks[c][i] = "pending"
  /\ IF acked
     THEN /\ tasks' = [tasks EXCEPT ![c][i] = "acked"]
          /\ topic' = [topic EXCEPT ![FeedItem(NotifyURL, items[c][i])] = @ + 1]
          /\ UNCHANGED <<totalErrors, cpc, pubErr>>
     ELSE /\ tasks' = [tasks EXCEPT ![c][i] = "failed"]
          /\ totalErrors' = [totalErrors EXCEPT ![c] = @ + 1]
          /\ pubErr' = [pubErr EXCEPT ![c] = AggregateErr(1, Len(items[c]))]
          /\ cpc' = [cpc EXCEPT ![c] = "returned"]
          /\ topic' = topic
  /\ wg' = [wg EXCEPT ![c] = @ - 1]
  /\ UNCHANGED <<feed, items, cret, polls>>
  /\ UNCHANGED <<store, delivered, procVars, pureVars, listVars>>

\* mutant: an acknowledged dispatch marks the entry as processed.
PublishResult_MarksProcessed(c, i, acked) ==
  /\ i \in DOMAIN tasks[c]
  /\ tasks[c][i] = "pending"
  /\ IF acked
     THEN /\ tasks' = [tasks EXCEPT ![c][i] = "acked"]
          /\ topic' = [topic EXCEPT ![FeedItem(NotifyURL, items[c][i])] = @ + 1]
          /\ store' = [store EXCEPT ![items[c][i].id] =
                         [id |-> items[c][i].id, title |-> items[c][i].title]]
          /\ totalErrors' = totalErrors
     ELSE /\ tasks' = [tasks EXCEPT ![c][i] = "failed"]
          /\ totalErrors' = [totalErrors EXCEPT ![c] = @ + 1]
          /\ UNCHANGED <<topic, store>>
  /\ wg' = [wg EXCEPT ![c] = @ - 1]
  /\ UNCHANGED <<cpc, feed, items, pubErr, cret, polls>>
  /\ UNCHANGED <<delivered, procVars, pureVars, listVars>>

\* lines 201-213, the goroutine of dispatch i: res.Get settles, a failure is
\* counted with atomic.AddUint64, the deferred wg.Done runs.
PublishResult(c, i, acked) ==
  /\ i \in DOMAIN tasks[c]
  /\ tasks[c][i] = "pending"
  /\ IF acked
     THEN /\ tasks' = [tasks EXCEPT ![c][i] = "acked"]
          /\ topic' = [topic EXCEPT ![FeedItem(NotifyURL, items[c][i])] = @ + 1]
          /\ totalErrors' = totalErrors
     ELSE /\ tasks' = [tasks EXCEPT ![c][i] = "failed"]
          /\ totalErrors' = [totalErrors EXCEPT ![c] = AtomicAddUint64(@, 1)]
          /\ topic' = topic
  /\ wg' = [wg EXCEPT ![c] = @ - 1]
  /\ UNCHANGED <<cpc, feed, items, pubErr, cret, polls>>
  /\ UNCHANGED <<store, delivered, procVars, pureVars, listVars>>

\* lines 216-222 and 166-168: wg.Wait returns, publishItem returns, and
\* processChannel returns.
PublishItemWait(c) ==
  /\ cpc[c] = "loop"
  /\ Len(tasks[c]) = Len(items[c])
  /\ WaitGroupZero(wg[c])
  /\ pubErr' = [pubErr EXCEPT ![c] = PublishItemReturn(totalErrors[c], Len(items[c]))]
  /\ cret' = [cret EXCEPT ![c] = ProcessChannelReturn(pubErr'[c])]
  /\ cpc' = [cpc EXCEPT ![c] = "returned"]
  /\ UNCHANGED <<feed, items, tasks, wg, totalErrors, polls>>
  /\ UNCHANGED <<store, topic, delivered, procVars, pureVars, listVars>>

\* the invocation is over; the instance takes the next event afresh.
ProcessChannelDone(c) ==
  /\ cpc[c] = "returned"
  /\ cpc' = [cpc EXCEPT ![c] = "idle"]
  /\ feed' = [feed EXCEPT ![c] = <<>>]
  /\ items' = [items EXCEPT ![c] = <<>>]
  /\ tasks' = [tasks EXCEPT ![c] = <<>>]
  /\ wg' = [wg EXCEPT ![c] = 0]
  /\ totalErrors' = [totalErrors EXCEPT ![c] = 0]
  /\ pubErr' = [pubErr EXCEPT ![c] = Nil]
  /\ cret' = [cret EXCEPT ![c] = Nil]
  /\ UNCHANGED polls
  /\ UNCHANGED <<store, topic, delivered, procVars, pureVars, listVars>>

\* ---------------------------------------------------------- processItem
\* lines 53-68 and 77-109: decode the event (an event of the item topic was
\* marshalled by publishItem, so it decodes), convert, POST to the webhook.
ProcessItemNotifyBody(p, m, outcome, code) ==
  /\ ppc[p] = "idle"
  /\ topic[m] > 0
  /\ topic' = [topic EXCEPT ![m] = @ - 1]
  /\ pevent' = [pevent EXCEPT ![p] = m]
  /\ pitem' = [pitem EXCEPT ![p] = Unmarshal(m)]
  /\ pposts' = [pposts EXCEPT ![p] = @ + NotifyPosts(outcome)]
  /\ IF Notify(outcome, code) = Nil
     THEN /\ ppc' = [ppc EXCEPT ![p] = "notified"]
          /\ pret' = pret
     ELSE /\ ppc' = [ppc EXCEPT ![p] = "returned"]
          /\ pret' = [pret EXCEPT ![p] =
                        Wrap("failed sending notification",
                             Notify(outcome, code))]
  /\ UNCHANGED <<store, pwrites, chanVars, pureVars, listVars>>

\* the webhook got a POST and answered 200
Answered200(outcome, code) ==
  outcome = "post" /\ code = StatusOK /\ NotifyPosts(outcome) > 0

\* one of the MaxAttempts invocations of a behaviour; the webhook counts the
\* POSTs it answered 200
ProcessItemNotify(p) ==
  /\ attempts < MaxAttempts
  /\ attempts' = attempts + 1
  /\ \E m \in Msgs :
     \E outcome \in {"post", "transportErr", "convertErr"} :
     \E code \in Statuses :
       /\ ProcessItemNotifyBody(p, m, outcome, code)
       /\ delivered' = IF Answered200(outcome, code)
                       THEN [delivered EXCEPT ![m.id] = @ + 1]
                       ELSE delivered

\* lines 70-74 and 163-183: the record write, after notify returned nil.
ProcessItemSave(p) ==
  /\ ppc[p] = "notified"
  /\ \E outcome \in {"ok", "clientErr", "setErr"} :
       /\ store' = Save(store, pitem[p], outcome).store
       /\ pwrites' = [pwrites EXCEPT ![p] = @ + SaveWrites(outcome)]
       /\ pret' = [pret EXCEPT ![p] =
                     IF Save(store, pitem[p], outcome).err = Nil THEN Nil
                     ELSE Wrap("failed updating record",
                               Save(store, pitem[p], outcome).err)]
  /\ ppc' = [ppc EXCEPT ![p] = "returned"]
  /\ UNCHANGED <<pevent, pitem, pposts, attempts>>
  /\ UNCHANGED <<topic, delivered, chanVars, pureVars, listVars>>

\* the invocation is over. main.tf sets retry_policy = RETRY_POLICY_RETRY on
\* the item topic's trigger: an event whose handler returned an error is
\* delivered again, one that returned nil is acknowledged.
ProcessItemDone(p) ==
  /\ ppc[p] = "returned"
  /\ topic' = IF pret[p] # Nil
              THEN [topic EXCEPT ![pevent[p]] = @ + 1]
              ELSE topic
  /\ ppc' = [ppc EXCEPT ![p] = "idle"]
  /\ pevent' = [pevent EXCEPT ![p] = NoEvent]
  /\ pitem' = [pitem EXCEPT ![p] = NoItem]
  /\ pret' = [pret EXCEPT ![p] = Nil]
  /\ pposts' = [pposts EXCEPT ![p] = 0]
  /\ pwrites' = [pwrites EXCEPT ![p] = 0]
  /\ UNCHANGED attempts
  /\ UNCHANGED <<store, delivered, chanVars, pureVars, listVars>>

Next ==
  \/ \E c \in Chans : ProcessChannel(c)
  \/ \E c \in Chans : PublishItemNewClient(c)
  \/ \E c \in Chans : PublishItemLoop(c)
  \/ \E c \in Chans, i \in 1..(MaxFeedLen), acked \in BOOLEAN :
       PublishResult(c, i, acked)
  \/ \E c \in Chans : PublishItemWait(c)
  \/ \E c \in Chans : ProcessChannelDone(c)
  \/ \E p \in Procs : ProcessItemNotify(p)
  \/ \E p \in Procs : ProcessItemSave(p)
  \/ \E p \in Procs : ProcessItemDone(p)

Spec == Init /\ [][Next]_vars

\* ============================================== functions applied on their own
\* --------------------------------------------------- notify's length limit
\* a text is its bytes (Go's string): "a" is a one-byte character, "C3" and
\* "A9" are the lead byte and the continuation byte of a two-byte character.
TextLimit == 4000
Ascii(n) == [i \in 1..n |-> "a"]
Wide(k) == [i \in 1..(2 * k) |-> IF i % 2 = 1 THEN "C3" ELSE "A9"]
Texts ==
  {Ascii(n) \o Wide(k) \o Ascii(m) :
     n \in (TextLimit - MaxSlack)..(TextLimit + 1), k \in 0..MaxWide,
     m \in 0..1}
    \cup {Ascii(n) \o Wide(k) : n \in 0..1, k \in 0..MaxWide}

\* lines 87-89: len(text) and text[:4000] count bytes.
Truncate(text) ==
  IF Len(text) > TextLimit THEN SubSeq(text, 1, TextLimit) ELSE text

\* ------------------------------------------------ htmlToMarkdown's <a> rule
\* a string is the sequence of its characters; a character that cannot be
\* written here stands as its code point ("U+00A0").
\* unicode.IsSpace, which strings.TrimSpace and md.AddSpaceIfNessesary use:
\* the characters with Unicode's White_Space property.
Space ==
  {" ", "\t", "\n", "U+000B", "\f", "\r", "U+0085", "U+00A0", "U+1680",
   "U+2000", "U+2001", "U+2002", "U+2003", "U+2004", "U+2005", "U+2006",
   "U+2007", "U+2008", "U+2009", "U+200A", "U+2028", "U+2029", "U+202F",
   "U+205F", "U+3000"}
RECURSIVE TrimLeft(_)
TrimLeft(s) ==
  IF s # <<>> /\ Head(s) \in Space THEN TrimLeft(Tail(s)) ELSE s
RECURSIVE TrimRight(_)
TrimRight(s) ==
  IF s # <<>> /\ s[Len(s)] \in Space
  THEN TrimRight(SubSeq(s, 1, Len(s) - 1)) ELSE s

\* mutant: only leading white space is removed.
TrimSpace_LeftOnly(s) == TrimLeft(s)

\* strings.TrimSpace
TrimSpace(s) == TrimRight(TrimLeft(s))

\* strings.Replace(s, old, new, -1) for a one-character old
RECURSIVE Replace(_, _, _)
Replace(s, old, new) ==
  IF s = <<>> THEN <<>>
  ELSE (IF Head(s) = old THEN new ELSE <<Head(s)>>)
         \o Replace(Tail(s), old, new)

\* md.EscapeMultiLine: trim, then a backslash before every line break
EscapeMultiLine(content) ==
  Replace(TrimSpace(content), "\n", <<"\\", "\n">>)

\* the anchors the rule is applied to: the attributes the element has, and
\* the text nodes before and after it.
AttrNames == {"href", "title", "aria-label"}
Hrefs ==
  {<<>>, <<" ">>, <<"\f">>, <<"#">>, <<" ", "#", " ">>, <<"U+00A0", "#">>,
   <<"#", "x">>, <<"u">>}
TitleValues == {<<>>, <<"T">>, <<"\"", "T">>}
Labels == {<<>>, <<"A">>}
AnchorTexts == {<<>>, <<" ">>, <<"U+00A0">>, <<"t">>, <<"t", "\n", "t">>}
Neighbours == {<<>>, <<"x">>, <<".">>, <<"U+2014">>}
AttrValues(name) ==
  IF name = "href" THEN Hrefs
  ELSE IF name = "title" THEN TitleValues ELSE Labels
Attributes ==
  UNION {{f \in [S -> Hrefs \cup TitleValues \cup Labels] :
            \A name \in S : f[name] \in AttrValues(name)} :
         S \in SUBSET AttrNames}
Anchors ==
  [content : AnchorTexts, attrs : Attributes, prev : Neighbours,
   next : Neighbours]

\* goquery's Selection.Attr and Selection.AttrOr: the default is returned
\* only when the element does not have the attribute.
Attr(selec, name) ==
  [val |-> IF name \in DOMAIN selec.attrs THEN selec.attrs[name] ELSE <<>>,
   ok |-> name \in DOMAIN selec.attrs]
AttrOr(selec, name, default) ==
  IF name \in DOMAIN selec.attrs THEN selec.attrs[name] ELSE default

\* md.AddSpaceIfNessesary: a space between the markdown and a neighbouring
\* text that does not end (start) with white space; no space is added
\* before punctuation that follows. unicode.IsPunct: the 842 characters of
\* Unicode's category P (Unicode 15.0.0, which Go's unicode package holds).
Punct ==
  {"!", "\"", "#", "%", "&", "'", "(", ")", "*", ",", "-", ".", "/", ":", ";",
   "?", "@", "[", "\\", "]", "_", "{", "}", "U+00A1", "U+00A7", "U+00AB",
   "U+00B6", "U+00B7", "U+00BB", "U+00BF", "U+037E", "U+0387", "U+055A",
   "U+055B", "U+055C", "U+055D", "U+055E", "U+055F", "U+0589", "U+058A",
   "U+05BE", "U+05C0", "U+05C3", "U+05C6", "U+05F3", "U+05F4", "U+0609",
   "U+060A", "U+060C", "U+060D", "U+061B", "U+061D", "U+061E", "U+061F",
   "U+066A", "U+066B", "U+066C", "U+066D", "U+06D4", "U+0700", "U+0701",
   "U+0702", "U+0703", "U+0704", "U+0705", "U+0706", "U+0707", "U+0708",
   "U+0709", "U+070A", "U+070B", "U+070C", "U+070D", "U+07F7", "U+07F8",
   "U+07F9", "U+0830", "U+0831", "U+0832", "U+0833", "U+0834", "U+0835",
   "U+0836", "U+0837", "U+0838", "U+0839", "U+083A", "U+083B", "U+083C",
   "U+083D", "U+083E", "U+085E", "U+0964", "U+0965", "U+0970", "U+09FD",
   "U+0A76", "U+0AF0", "U+0C77", "U+0C84", "U+0DF4", "U+0E4F", "U+0E5A",
   "U+0E5B", "U+0F04", "U+0F05", "U+0F06", "U+0F07", "U+0F08", "U+0F09",
   "U+0F0A", "U+0F0B", "U+0F0C", "U+0F0D", "U+0F0E", "U+0F0F", "U+0F10",
   "U+0F11", "U+0F12", "U+0F14", "U+0F3A", "U+0F3B", "U+0F3C", "U+0F3D",
   "U+0F85", "U+0FD0", "U+0FD1", "U+0FD2", "U+0FD3", "U+0FD4", "U+0FD9",
   "U+0FDA", "U+104A", "U+104B", "U+104C", "U+104D", "U+104E", "U+104F",
   "U+10FB", "U+1360", "U+1361", "U+1362", "U+1363", "U+1364", "U+1365",
   "U+1366", "U+1367", "U+1368", "U+1400", "U+166E", "U+169B", "U+169C",
   "U+16EB", "U+16EC", "U+16ED", "U+1735", "U+1736", "U+17D4", "U+17D5",
   "U+17D6", "U+17D8", "U+17D9", "U+17DA", "U+1800", "U+1801", "U+1802",
   "U+1803", "U+1804", "U+1805", "U+1806", "U+1807", "U+1808", "U+1809",
   "U+180A", "U+1944", "U+1945", "U+1A1E", "U+1A1F", "U+1AA0", "U+1AA1",
   "U+1AA2", "U+1AA3", "U+1AA4", "U+1AA5", "U+1AA6", "U+1AA8", "U+1AA9",
   "U+1AAA", "U+1AAB", "U+1AAC", "U+1AAD", "U+1B5A", "U+1B5B", "U+1B5C",
   "U+1B5D", "U+1B5E", "U+1B5F", "U+1B60", "U+1B7D", "U+1B7E", "U+1BFC",
   "U+1BFD", "U+1BFE", "U+1BFF", "U+1C3B", "U+1C3C", "U+1C3D", "U+1C3E",
   "U+1C3F", "U+1C7E", "U+1C7F", "U+1CC0", "U+1CC1", "U+1CC2", "U+1CC3",
   "U+1CC4", "U+1CC5", "U+1CC6", "U+1CC7", "U+1CD3", "U+2010", "U+2011",
   "U+2012", "U+2013", "U+2014", "U+2015", "U+2016", "U+2017", "U+2018",
   "U+2019", "U+201A", "U+201B", "U+201C", "U+201D", "U+201E", "U+201F",
   "U+2020", "U+2021", "U+2022", "U+2023", "U+2024", "U+2025", "U+2026",
   "U+2027", "U+2030", "U+2031", "U+2032", "U+2033", "U+2034", "U+2035",
   "U+2036", "U+2037", "U+2038", "U+2039", "U+203A", "U+203B", "U+203C",
   "U+203D", "U+203E", "U+203F", "U+2040", "U+2041", "U+2042", "U+2043",
   "U+2045", "U+2046", "U+2047", "U+2048", "U+2049", "U+204A", "U+204B",
   "U+204C", "U+204D", "U+204E", "U+204F", "U+2050", "U+2051", "U+2053",
   "U+2054", "U+2055", "U+2056", "U+2057", "U+2058", "U+2059", "U+205A",
   "U+205B", "U+205C", "U+205D", "U+205E", "U+207D", "U+207E", "U+208D",
   "U+208E", "U+2308", "U+2309", "U+230A", "U+230B", "U+2329", "U+232A",
   "U+2768", "U+2769", "U+276A", "U+276B", "U+276C", "U+276D", "U+276E",
   "U+276F", "U+2770", "U+2771", "U+2772", "U+2773", "U+2774", "U+2775",
   "U+27C5", "U+27C6", "U+27E6", "U+27E7", "U+27E8", "U+27E9", "U+27EA",
   "U+27EB", "U+27EC", "U+27ED", "U+27EE", "U+27EF", "U+2983", "U+2984",
   "U+2985", "U+2986", "U+2987", "U+2988", "U+2989", "U+298A", "U+298B",
   "U+298C", "U+298D", "U+298E", "U+298F", "U+2990", "U+2991", "U+2992",
   "U+2993", "U+2994", "U+2995", "U+2996", "U+2997", "U+2998", "U+29D8",
   "U+29D9", "U+29DA", "U+29DB", "U+29FC", "U+29FD", "U+2CF9", "U+2CFA",
   "U+2CFB", "U+2CFC", "U+2CFE", "U+2CFF", "U+2D70", "U+2E00", "U+2E01",
   "U+2E02", "U+2E03", "U+2E04", "U+2E05", "U+2E06", "U+2E07", "U+2E08",
   "U+2E09", "U+2E0A", "U+2E0B", "U+2E0C", "U+2E0D", "U+2E0E", "U+2E0F",
   "U+2E10", "U+2E11", "U+2E12", "U+2E13", "U+2E14", "U+2E15", "U+2E16",
   "U+2E17", "U+2E18", "U+2E19", "U+2E1A", "U+2E1B", "U+2E1C", "U+2E1D",
   "U+2E1E", "U+2E1F", "U+2E20", "U+2E21", "U+2E22", "U+2E23", "U+2E24",
   "U+2E25", "U+2E26", "U+2E27", "U+2E28", "U+2E29", "U+2E2A", "U+2E2B",
   "U+2E2C", "U+2E2D", "U+2E2E", "U+2E30", "U+2E31", "U+2E32", "U+2E33",
   "U+2E34", "U+2E35", "U+2E36", "U+2E37", "U+2E38", "U+2E39", "U+2E3A",
   "U+2E3B", "U+2E3C", "U+2E3D", "U+2E3E", "U+2E3F", "U+2E40", "U+2E41",
   "U+2E42", "U+2E43", "U+2E44", "U+2E45", "U+2E46", "U+2E47", "U+2E48",
   "U+2E49", "U+2E4A", "U+2E4B", "U+2E4C", "U+2E4D", "U+2E4E", "U+2E4F",
   "U+2E52", "U+2E53", "U+2E54", "U+2E55", "U+2E56", "U+2E57", "U+2E58",
   "U+2E59", "U+2E5A", "U+2E5B", "U+2E5C", "U+2E5D", "U+3001", "U+3002",
   "U+3003", "U+3008", "U+3009", "U+300A", "U+300B", "U+300C", "U+300D",
   "U+300E", "U+300F", "U+3010", "U+3011", "U+3014", "U+3015", "U+3016",
   "U+3017", "U+3018", "U+3019", "U+301A", "U+301B", "U+301C", "U+301D",
   "U+301E", "U+301F", "U+3030", "U+303D", "U+30A0", "U+30FB", "U+A4FE",
   "U+A4FF", "U+A60D", "U+A60E", "U+A60F", "U+A673", "U+A67E", "U+A6F2",
   "U+A6F3", "U+A6F4", "U+A6F5", "U+A6F6", "U+A6F7", "U+A874", "U+A875",
   "U+A876", "U+A877", "U+A8CE", "U+A8CF", "U+A8F8", "U+A8F9", "U+A8FA",
   "U+A8FC", "U+A92E", "U+A92F", "U+A95F", "U+A9C1", "U+A9C2", "U+A9C3",
   "U+A9C4", "U+A9C5", "U+A9C6", "U+A9C7", "U+A9C8", "U+A9C9", "U+A9CA",
   "U+A9CB", "U+A9CC", "U+A9CD", "U+A9DE", "U+A9DF", "U+AA5C", "U+AA5D",
   "U+AA5E", "U+AA5F", "U+AADE", "U+AADF", "U+AAF0", "U+AAF1", "U+ABEB",
   "U+FD3E", "U+FD3F", "U+FE10", "U+FE11", "U+FE12", "U+FE13", "U+FE14",
   "U+FE15", "U+FE16", "U+FE17", "U+FE18", "U+FE19", "U+FE30", "U+FE31",
   "U+FE32", "U+FE33", "U+FE34", "U+FE35", "U+FE36", "U+FE37", "U+FE38",
   "U+FE39", "U+FE3A", "U+FE3B", "U+FE3C", "U+FE3D", "U+FE3E", "U+FE3F",
   "U+FE40", "U+FE41", "U+FE42", "U+FE43", "U+FE44", "U+FE45", "U+FE46",
   "U+FE47", "U+FE48", "U+FE49", "U+FE4A", "U+FE4B", "U+FE4C", "U+FE4D",
   "U+FE4E", "U+FE4F", "U+FE50", "U+FE51", "U+FE52", "U+FE54", "U+FE55",
   "U+FE56", "U+FE57", "U+FE58", "U+FE59", "U+FE5A", "U+FE5B", "U+FE5C",
   "U+FE5D", "U+FE5E", "U+FE5F", "U+FE60", "U+FE61", "U+FE63", "U+FE68",
   "U+FE6A", "U+FE6B", "U+FF01", "U+FF02", "U+FF03", "U+FF05", "U+FF06",
   "U+FF07", "U+FF08", "U+FF09", "U+FF0A", "U+FF0C", "U+FF0D", "U+FF0E",
   "U+FF0F", "U+FF1A", "U+FF1B", "U+FF1F", "U+FF20", "U+FF3B", "U+FF3C",
   "U+FF3D", "U+FF3F", "U+FF5B", "U+FF5D", "U+FF5F", "U+FF60", "U+FF61",
   "U+FF62", "U+FF63", "U+FF64", "U+FF65", "U+10100", "U+10101", "U+10102",
   "U+1039F", "U+103D0", "U+1056F", "U+10857", "U+1091F", "U+1093F",
   "U+10A50", "U+10A51", "U+10A52", "U+10A53", "U+10A54", "U+10A55",
   "U+10A56", "U+10A57", "U+10A58", "U+10A7F", "U+10AF0", "U+10AF1",
   "U+10AF2", "U+10AF3", "U+10AF4", "U+10AF5", "U+10AF6", "U+10B39",
   "U+10B3A", "U+10B3B", "U+10B3C", "U+10B3D", "U+10B3E", "U+10B3F",
   "U+10B99", "U+10B9A", "U+10B9B", "U+10B9C", "U+10EAD", "U+10F55",
   "U+10F56", "U+10F57", "U+10F58", "U+10F59", "U+10F86", "U+10F87",
   "U+10F88", "U+10F89", "U+11047", "U+11048", "U+11049", "U+1104A",
   "U+1104B", "U+1104C", "U+1104D", "U+110BB", "U+110BC", "U+110BE",
   "U+110BF", "U+110C0", "U+110C1", "U+11140", "U+11141", "U+11142",
   "U+11143", "U+11174", "U+11175", "U+111C5", "U+111C6", "U+111C7",
   "U+111C8", "U+111CD", "U+111DB", "U+111DD", "U+111DE", "U+111DF",
   "U+11238", "U+11239", "U+1123A", "U+1123B", "U+1123C", "U+1123D",
   "U+112A9", "U+1144B", "U+1144C", "U+1144D", "U+1144E", "U+1144F",
   "U+1145A", "U+1145B", "U+1145D", "U+114C6", "U+115C1", "U+115C2",
   "U+115C3", "U+115C4", "U+115C5", "U+115C6", "U+115C7", "U+115C8",
   "U+115C9", "U+115CA", "U+115CB", "U+115CC", "U+115CD", "U+115CE",
   "U+115CF", "U+115D0", "U+115D1", "U+115D2", "U+115D3", "U+115D4",
   "U+115D5", "U+115D6", "U+115D7", "U+11641", "U+11642", "U+11643",
   "U+11660", "U+11661", "U+11662", "U+11663", "U+11664", "U+11665",
   "U+11666", "U+11667", "U+11668", "U+11669", "U+1166A", "U+1166B",
   "U+1166C", "U+116B9", "U+1173C", "U+1173D", "U+1173E", "U+1183B",
   "U+11944", "U+11945", "U+11946", "U+119E2", "U+11A3F", "U+11A40",
   "U+11A41", "U+11A42", "U+11A43", "U+11A44", "U+11A45", "U+11A46",
   "U+11A9A", "U+11A9B", "U+11A9C", "U+11A9E", "U+11A9F", "U+11AA0",
   "U+11AA1", "U+11AA2", "U+11B00", "U+11B01", "U+11B02", "U+11B03",
   "U+11B04", "U+11B05", "U+11B06", "U+11B07", "U+11B08", "U+11B09",
   "U+11C41", "U+11C42", "U+11C43", "U+11C44", "U+11C45", "U+11C70",
   "U+11C71", "U+11EF7", "U+11EF8", "U+11F43", "U+11F44", "U+11F45",
   "U+11F46", "U+11F47", "U+11F48", "U+11F49", "U+11F4A", "U+11F4B",
   "U+11F4C", "U+11F4D", "U+11F4E", "U+11F4F", "U+11FFF", "U+12470",
   "U+12471", "U+12472", "U+12473", "U+12474", "U+12FF1", "U+12FF2",
   "U+16A6E", "U+16A6F", "U+16AF5", "U+16B37", "U+16B38", "U+16B39",
   "U+16B3A", "U+16B3B", "U+16B44", "U+16E97", "U+16E98", "U+16E99",
   "U+16E9A", "U+16FE2", "U+1BC9F", "U+1DA87", "U+1DA88", "U+1DA89",
   "U+1DA8A", "U+1DA8B", "U+1E95E", "U+1E95F"}
AddSpaceIfNessesary(selec, markdown) ==
  LET before == IF selec.prev # <<>> /\ selec.prev[Len(selec.prev)] \notin Space
                THEN <<" ">> ELSE <<>>
      after == IF selec.next # <<>> /\ selec.next[1] \notin Space \cup Punct
               THEN <<" ">> ELSE <<>>
  IN  before \o markdown \o after

\* lines 134-139: the title part of the link
TitlePart(selec) ==
  IF Attr(selec, "title").ok
  THEN <<" ", "\"">>
         \o Replace(Replace(Attr(selec, "title").val, "\n", <<" ">>),
                    "\"", <<"\\", "\"">>)
         \o <<"\"">>
  ELSE <<>>

\* lines 143-145: the text of a link whose content is blank
LinkContent(content, selec) ==
  IF TrimSpace(content) = <<>>
  THEN AttrOr(selec, "title", AttrOr(selec, "aria-label", <<>>))
  ELSE content

\* lines 121-155, the AdvancedReplacement of the rule: md.AdvancedResult's
\* Markdown and the skip flag.
AnchorRule(content, selec) ==
  LET href == Attr(selec, "href") IN
  IF ~href.ok \/ TrimSpace(href.val) = <<>> \/ TrimSpace(href.val) = <<"#">>
  THEN [markdown |-> content, skip |-> FALSE]
  ELSE LET text == LinkContent(EscapeMultiLine(content), selec) IN
       IF text = <<>>
       THEN [markdown |-> <<>>, skip |-> TRUE]
       ELSE [markdown |->
               AddSpaceIfNessesary(selec,
                 <<"<">> \o href.val \o TitlePart(selec) \o <<"|">>
                   \o text \o <<">">>),
             skip |-> FALSE]

\* ------------------------------------------------------------- save, twice
\* a document of the collection: none, the one save wrote for an entry, or
\* one that also has a field save does not write.
WithNote(doc) ==
  [f \in (DOMAIN doc) \cup {"note"} |-> IF f = "note" THEN "n" ELSE doc[f]]
StoredDocs(x) ==
  {NoRecord}
    \cup {Record(Unmarshal(FeedItem(NotifyURL, e))) :
            e \in {d \in Entries : d.id = x}}
    \cup {WithNote(Record(Unmarshal(FeedItem(NotifyURL, e)))) :
            e \in {d \in Entries : d.id = x}}
Stores ==
  {st \in [Ids -> UNION {StoredDocs(x) : x \in Ids}] :
     \A x \in Ids : st[x] \in StoredDocs(x)}
SaveArgs == [st : Stores, item : {Unmarshal(m) : m \in Msgs}]

\* ------------------------------------------------------------- applications
InitPure ==
  /\ InitPipeline
  /\ call \in {"truncate", "anchor", "save"}
  /\ arg \in (IF call = "truncate" THEN Texts
              ELSE IF call = "anchor" THEN Anchors ELSE SaveArgs)
  /\ res = <<>>
  /\ ListIdle

\* notify's limit applied to an assembled text
ApplyTruncate ==
  /\ call = "truncate" /\ res = <<>>
  /\ res' = <<Truncate(arg)>>
  /\ UNCHANGED <<call, arg, pipeVars, listVars>>

\* the <a> rule applied to an anchor
ApplyAnchorRule ==
  /\ call = "anchor" /\ res = <<>>
  /\ res' = <<AnchorRule(arg.content, arg)>>
  /\ UNCHANGED <<call, arg, pipeVars, listVars>>

\* save applied to the item, first to the given store, then to the store the
\* first application left
ApplySave ==
  /\ call = "save" /\ Len(res) < 2
  /\ \E outcome \in {"ok", "clientErr", "setErr"} :
       res' = Append(res,
                Save(IF res = <<>> THEN arg.st ELSE res[Len(res)].store,
                     arg.item, outcome))
  /\ UNCHANGED <<call, arg, pipeVars, listVars>>

NextPure ==
  \/ ApplyTruncate
  \/ ApplyAnchorRule
  \/ ApplySave

SpecPure == InitPure /\ [][NextPure]_vars

\* =============================================================== listChannels
\* the documents of the channels collection (main.tf line 168): ChannelConfig
ChannelConfigs ==
  {[url |-> "u1", notify |-> NotifyURL], [url |-> "u2", notify |-> NotifyURL]}
ChannelDocs == UNION {[1..n -> ChannelConfigs] : n \in 0..MaxChannels}

\* mutant: the loop is left at the first channel that was not published.
AfterPublishChannel_StopsOnError(err) ==
  IF err = Nil THEN "iter" ELSE "respond"

\* lines 49-53: whatever publishChannel returned, the loop goes on to the
\* next iter.Next.
AfterPublishChannel(err) == "iter"

\* lines 50-52: an error of publishChannel is logged.
LogPublishError(log, err) ==
  IF err = Nil THEN log
  ELSE Append(log, Wrap("publish channel error", err))

InitList ==
  /\ InitPipeline
  /\ call = "none" /\ arg = <<>> /\ res = <<>>
  /\ lpc = "start"
  /\ ldocs \in ChannelDocs
  /\ lnext = 1
  /\ lres = <<>>
  /\ llog = <<>>
  /\ lresp = ""
  /\ ctopic = <<>>

\* lines 29-37: firestore.NewClient; log.Fatalf ends the process on failure.
ListChannelsNewClient ==
  /\ lpc = "start"
  /\ \E ok \in BOOLEAN : lpc' = IF ok THEN "iter" ELSE "exited"
  /\ UNCHANGED <<ldocs, lnext, lres, llog, lresp, ctopic>>
  /\ UNCHANGED <<pipeVars, pureVars>>

\* lines 39-48: iter.Next yields the next document, iterator.Done after the
\* last one, or an error, on which log.Fatalf ends the process.
ListChannelsIterNext ==
  /\ lpc = "iter"
  /\ \E ok \in BOOLEAN :
       lpc' = IF ~ok THEN "exited"
              ELSE IF lnext > Len(ldocs) THEN "respond" ELSE "publish"
  /\ UNCHANGED <<ldocs, lnext, lres, llog, lresp, ctopic>>
  /\ UNCHANGED <<pipeVars, pureVars>>

\* lines 49 and 58-74: publishChannel up to t.Publish; pubsub.NewClient or
\* json.Marshal may fail, and publishChannel then returns that error.
PublishChannelStart ==
  /\ lpc = "publish"
  /\ \E outcome \in {"ok", "clientErr", "marshalErr"} :
       IF outcome = "ok"
       THEN /\ lpc' = "get"
            /\ UNCHANGED <<lnext, lres, llog>>
       ELSE LET err == Err(IF outcome = "clientErr" THEN "pubsub.NewClient"
                           ELSE "json.Marshal")
            IN  /\ lres' = Append(lres, [channel |-> ldocs[lnext], err |-> err])
                /\ llog' = LogPublishError(llog, err)
                /\ lnext' = lnext + 1
                /\ lpc' = AfterPublishChannel(err)
  /\ UNCHANGED <<ldocs, lresp, ctopic>>
  /\ UNCHANGED <<pipeVars, pureVars>>

\* lines 78-85 and 49-53: result.Get blocks until the publish is settled;
\* publishChannel returns and listChannels logs its error.
PublishChannelGet ==
  /\ lpc = "get"
  /\ \E acked \in BOOLEAN :
       LET err == IF acked THEN Nil ELSE Err("failed to publish") IN
       /\ ctopic' = IF acked THEN Append(ctopic, ldocs[lnext]) ELSE ctopic
       /\ lres' = Append(lres, [channel |-> ldocs[lnext], err |-> err])
       /\ llog' = LogPublishError(llog, err)
       /\ lpc' = AfterPublishChannel(err)
  /\ lnext' = lnext + 1
  /\ UNCHANGED <<ldocs, lresp>>
  /\ UNCHANGED <<pipeVars, pureVars>>

\* line 55: the loop is over, the response is written.
ListChannelsRespond ==
  /\ lpc = "respond"
  /\ lresp' = "Success"
  /\ lpc' = "answered"
  /\ UNCHANGED <<ldocs, lnext, lres, llog, ctopic>>
  /\ UNCHANGED <<pipeVars, pureVars>>

NextList ==
  \/ ListChannelsNewClient
  \/ ListChannelsIterNext
  \/ PublishChannelStart
  \/ PublishChannelGet
  \/ ListChannelsRespond

SpecList == InitList /\ [][NextList]_vars

\* ================================================================ claims
NumFailed(c) == Cardinality({i \in DOMAIN tasks[c] : tasks[c][i] = "failed"})
NumAcked(c) == Cardinality({i \in DOMAIN tasks[c] : tasks[c][i] = "acked"})
HasRecord(x) == store[x] # NoRecord
\* the step in which instance c's removeOldItems returns its result
DedupStep(c) == cpc[c] = "idle" /\ cpc'[c] = "publish"
\* publishItem got past pubsub.NewClient and returned through wg.Wait
FanOutReturned(c) ==
  cpc[c] = "returned" /\ cret[c] = Nil /\ pubErr[c].kind # "pubsub.NewClient"
    /\ Len(tasks[c]) + Len(items[c]) > 0
\* an earlier dispatch of x is still on its way: not yet published or
\* unsettled in a fan-out, in the topic, or held by a processItem invocation
InFlight(x) ==
  \/ \E c \in Chans : \E i \in DOMAIN items[c] :
       items[c][i].id = x /\ (i \notin DOMAIN tasks[c] \/ tasks[c][i] = "pending")
  \/ \E m \in Msgs : m.id = x /\ topic[m] > 0
  \/ \E p \in Procs : pitem[p].id = x
Settled(x) == HasRecord(x) /\ ~InFlight(x)
\* what processItem returns when save failed
SaveErrors ==
  {Wrap("failed updating record", Err("firestore client error")),
   Wrap("failed updating record", Err("failed writing to firestore"))}

\* C1 (as claimed): whatever the interleaving of processChannel and
\* processItem invocations, an entry identifier is delivered to the webhook
\* at most once.
C1_DeliveredAtMostOnce == \A x \in Ids : delivered[x] <= 1

\* C1 (amended): once an entry has been notified, its record written and no
\* earlier dispatch of it is still in flight, it stays so and is never
\* delivered again.
C1_NoResendOnceSettled ==
  [][\A x \in Ids :
       Settled(x) => Settled(x)' /\ delivered'[x] = delivered[x]]_vars

\* a poll that has the recorded, settled entry in its feed has run its dedup
C1_Witness ==
  \E c \in Chans : \E x \in Ids :
    /\ Settled(x) /\ delivered[x] >= 1
    /\ cpc[c] = "publish" /\ x \in Keys(feed[c])

\* C2 (as claimed): for every input sequence removeOldItems returns exactly
\* the entries whose identifier has no record at the batch read: every such
\* entry is included, every other excluded.
C2_EveryAbsentEntryReturned ==
  [][\A c \in Chans : DedupStep(c) =>
       {items'[c][i] : i \in DOMAIN items'[c]}
         = {feed'[c][j] : j \in {k \in DOMAIN feed'[c] : ~HasRecord(feed'[c][k].id)}}]_vars

\* C2 (amended): removeOldItems returns exactly one entry for each distinct
\* identifier of the input that has no record at the batch read, namely the
\* last input entry carrying that identifier, and no entry whose identifier
\* has a record.
C2_DedupExactPerIdentifier ==
  [][\A c \in Chans : DedupStep(c) =>
       /\ Keys(items'[c]) = {g \in Keys(feed'[c]) : ~HasRecord(g)}
       /\ Len(items'[c]) = Cardinality(Keys(items'[c]))
       /\ \A i \in DOMAIN items'[c] : \E j \in DOMAIN feed'[c] :
            /\ feed'[c][j] = items'[c][i]
            /\ \A k \in DOMAIN feed'[c] : k > j => feed'[c][k].id # feed'[c][j].id]_vars

\* the dedup of a two-identifier feed with exactly one identifier recorded
C2_Witness ==
  \E c \in Chans :
    /\ cpc[c] = "publish"
    /\ Cardinality(Keys(feed[c])) = 2
    /\ \E x \in Keys(feed[c]) : HasRecord(x)
    /\ \E x \in Keys(feed[c]) : ~HasRecord(x) /\ Keys(items[c]) = {x}

\* C3: a save that returns nil has left the record of its identifier in the
\* store, no step removes a record, and a dedup read never returns an entry
\* whose identifier has a record at the read.
C3_RecordedNeverDispatched ==
  [][/\ \A p \in Procs :
          (ppc[p] = "notified" /\ ppc'[p] = "returned" /\ pret'[p] = Nil)
            => HasRecord(pitem[p].id)'
     /\ \A x \in Ids : HasRecord(x) => HasRecord(x)'
     /\ \A c \in Chans : DedupStep(c) =>
          \A x \in Keys(items'[c]) : ~HasRecord(x)]_vars

\* a dedup read over a feed holding only a recorded entry dispatches nothing
C3_Witness ==
  \E c \in Chans : \E x \in Ids :
    /\ cpc[c] = "publish" /\ Keys(feed[c]) = {x} /\ items[c] = <<>>
    /\ HasRecord(x)

\* C4: a record exists only for an identifier the webhook has answered 200
\* for, and processItem reaches its store write only after such an answer.
C4_PersistAfterNotify ==
  /\ \A x \in Ids : HasRecord(x) => delivered[x] >= 1
  /\ \A p \in Procs : ppc[p] = "notified" => delivered[pitem[p].id] >= 1

C4_Witness == \E x \in Ids : HasRecord(x) /\ delivered[x] = 1

\* C5: a processChannel invocation in which a dispatch failed, or whose
\* dispatch stage raised an error, returns an error.
C5_DispatchFailureReturned ==
  \A c \in Chans :
    (cpc[c] = "returned" /\ (totalErrors[c] > 0 \/ pubErr[c] # Nil))
      => cret[c] # Nil

\* C6: after the join the failure counter equals the number of dispatches
\* that failed, and publishItem reports that k with n the number of entries
\* handed to the fan-out.
C6_TallyExact ==
  \A c \in Chans :
    /\ cpc[c] = "loop" /\ WaitGroupZero(wg[c]) => totalErrors[c] = NumFailed(c)
    /\ cpc[c] = "returned" /\ pubErr[c].kind # "pubsub.NewClient" =>
         /\ totalErrors[c] = NumFailed(c)
         /\ pubErr[c] = IF NumFailed(c) > 0
                        THEN AggregateErr(NumFailed(c), Len(items[c]))
                        ELSE Nil

\* both dispatches of a two-entry fan-out failed and were both counted
C6_Witness ==
  \E c \in Chans :
    FanOutReturned(c) /\ Len(items[c]) = 2 /\ pubErr[c] = AggregateErr(2, 2)

\* C7: when the fan-out returns, every new entry has been dispatched, once,
\* whichever dispatches failed.
C7_EveryEntryDispatched ==
  \A c \in Chans :
    /\ Len(tasks[c]) <= Len(items[c])
    /\ cpc[c] = "returned" /\ pubErr[c].kind # "pubsub.NewClient"
         => /\ Len(tasks[c]) = Len(items[c])
            /\ NumAcked(c) + NumFailed(c) = Len(items[c])

\* the first dispatch failed and its sibling was still dispatched and acked
C7_Witness ==
  \E c \in Chans : FanOutReturned(c) /\ tasks[c] = <<"failed", "acked">>

\* C8: publishItem never returns while a dispatch it started is unsettled.
C8_JoinBarrier ==
  \A c \in Chans :
    cpc[c] = "returned" =>
      /\ wg[c] = 0
      /\ \A i \in DOMAIN tasks[c] : tasks[c][i] \in {"acked", "failed"}

C8_Witness ==
  \E c \in Chans :
    FanOutReturned(c) /\ Len(tasks[c]) = 2 /\ wg[c] = 0 /\ NumAcked(c) = 2

\* C9: notify returns nil only when the webhook answered 200; when it returns
\* an error processItem returns an error and the store is left unchanged.
C9_DeliveryFailureNoWrite ==
  [][\A p \in Procs :
       /\ (ppc[p] = "idle" /\ ppc'[p] = "notified")
            => delivered'[pitem'[p].id] = delivered[pitem'[p].id] + 1
       /\ (ppc[p] = "idle" /\ ppc'[p] = "returned")
            => /\ pret'[p] # Nil
               /\ store' = store
               /\ delivered' = delivered]_vars

\* a POST answered 201 ended the invocation with an error and no record
C9_Witness ==
  \E p \in Procs :
    /\ ppc[p] = "returned"
    /\ pret[p] = Wrap("failed sending notification", StatusErr(201))
    /\ ~HasRecord(pitem[p].id)

\* C10 (as claimed): after a processItem whose delivery succeeded and whose
\* store write failed, no record exists for the identifier.
C10_NoRecordAfterSaveFailure ==
  \A p \in Procs :
    (ppc[p] = "returned" /\ pret[p] \in SaveErrors) => ~HasRecord(pitem[p].id)

\* C10 (amended): a store write that fails returns an error and leaves the
\* store as it was, the event is handed to processItem again, and a
\* processItem invocation on an available event can always deliver, whatever
\* the store holds.
C10_SaveFailureLeavesStore ==
  /\ [][\A p \in Procs :
          /\ (ppc[p] = "notified" /\ ppc'[p] = "returned" /\ pret'[p] # Nil)
               => store' = store
          /\ (ppc[p] = "returned" /\ pret[p] # Nil /\ ppc'[p] = "idle")
               => topic'[pevent[p]] = topic[pevent[p]] + 1]_vars
  /\ [](\A p \in Procs : \A m \in Msgs :
          (ppc[p] = "idle" /\ topic[m] > 0 /\ attempts < MaxAttempts)
            => ENABLED (ProcessItemNotify(p)
                          /\ delivered'[m.id] = delivered[m.id] + 1))

\* delivered, write failed, handed over again, delivered again: no record
C10_Witness ==
  \E p \in Procs :
    /\ ppc[p] = "returned"
    /\ pret[p] = Wrap("failed updating record", Err("failed writing to firestore"))
    /\ delivered[pitem[p].id] = 2
    /\ ~HasRecord(pitem[p].id)

\* what processItem returns when htmlToMarkdown, the POST or save failed
ConvertError == Wrap("failed sending notification", Err("failed converting to markdown"))
DeliveryErrors ==
  {Wrap("failed sending notification", Err("error making http request"))}
    \cup {Wrap("failed sending notification", StatusErr(code)) :
            code \in Statuses \ {StatusOK}}

\* C11: a processItem invocation whose conversion failed returns an error
\* having made no POST and no store write: the step leaves the webhook and
\* the store as they were.
C11_TransformFailureBeforeDelivery ==
  /\ [](\A p \in Procs :
          (ppc[p] = "returned" /\ pret[p] = ConvertError)
            => pposts[p] = 0 /\ pwrites[p] = 0)
  /\ [][\A p \in Procs :
          (ppc[p] = "idle" /\ pret'[p] = ConvertError)
            => /\ ppc'[p] = "returned"
               /\ store' = store
               /\ delivered' = delivered]_vars

C11_Witness ==
  \E p \in Procs :
    /\ ppc[p] = "returned" /\ pret[p] = ConvertError
    /\ pposts[p] = 0 /\ ~HasRecord(pitem[p].id) /\ delivered[pitem[p].id] = 0

\* C12: a processChannel invocation whose feed parse or dedup read failed
\* has returned that error and dispatched nothing: no entry is new to it,
\* no dispatch was started, the topic is as it was.
C12_FailClosedBeforeFanOut ==
  /\ [](\A c \in Chans :
          cret[c].kind \in {"failed parsing feed", "failed processing items"}
            => /\ cpc[c] = "returned"
               /\ items[c] = <<>> /\ tasks[c] = <<>> /\ wg[c] = 0)
  /\ [][\A c \in Chans :
          (cpc[c] = "idle" /\ cret'[c] # Nil) => topic' = topic]_vars

\* the dedup read failed while an entry of an earlier poll is in flight
C12_Witness ==
  \E c \in Chans :
    /\ cpc[c] = "returned" /\ cret[c] = Err("failed processing items")
    /\ tasks[c] = <<>>
    /\ \E m \in Msgs : topic[m] > 0

\* C13: no step of a processChannel invocation changes the store; the store
\* changes only in processItem's save.
C13_ChannelLeavesStore ==
  [][/\ chanVars' # chanVars => store' = store
     /\ store' # store =>
          \E p \in Procs : ppc[p] = "notified" /\ ppc'[p] = "returned"]_vars

\* an invocation dispatched an entry and returned; the entry has no record
C13_Witness ==
  \E c \in Chans : \E i \in DOMAIN tasks[c] :
    /\ cpc[c] = "returned" /\ tasks[c][i] = "acked"
    /\ ~HasRecord(items[c][i].id)
    /\ \E x \in Ids : HasRecord(x)

\* C14: the item processItem decodes from a dispatched message carries the
\* channel's notify URL, the feed's display name and the fields of an entry,
\* and the text assembled from it starts with that display name.
C14_DispatchedItemComplete ==
  \A p \in Procs :
    ppc[p] # "idle" =>
      /\ pitem[p].notify = NotifyURL
      /\ pitem[p].feed = FeedTitle
      /\ \E e \in Entries :
           /\ pitem[p].id = e.id /\ pitem[p].title = e.title
           /\ pitem[p].link = e.link /\ pitem[p].content = e.content
           /\ pitem[p].updated = e.updated
      /\ SubSeq(Assemble(pitem[p], "text"), 1, 7)
           = <<FeedTitle, " ", "<", pitem[p].link, "|", pitem[p].title, ">">>

\* C18: the entries one invocation dispatches have pairwise distinct
\* identifiers, no more dispatches are started than entries, and their
\* number n and the n reported are at most the number of distinct
\* identifiers of the input.
C18_OnePerIdentifier ==
  /\ [](\A c \in Chans :
          /\ \A i, j \in DOMAIN items[c] :
               items[c][i].id = items[c][j].id => i = j
          /\ Len(tasks[c]) <= Len(items[c])
          /\ pubErr[c].n <= Len(items[c])
          /\ cpc[c] = "publish" => Len(items[c]) <= Cardinality(Keys(feed[c])))
  /\ [][\A c \in Chans : DedupStep(c) =>
          Len(items'[c]) <= Cardinality(Keys(feed'[c]))]_vars

\* a feed of two entries sharing an absent identifier gave one dispatch
C18_Witness ==
  \E c \in Chans :
    /\ cpc[c] = "publish" /\ Len(feed[c]) = 2
    /\ Cardinality(Keys(feed[c])) = 1 /\ feed[c][1] # feed[c][2]
    /\ Len(items[c]) = 1

\* C19: a processItem invocation makes at most one POST and at most one
\* store write, and the error it returns names the step that failed: no
\* POST was made when the conversion failed, no write when the POST failed.
C19_NoInternalRetry ==
  \A p \in Procs :
    /\ pposts[p] <= 1 /\ pwrites[p] <= 1
    /\ pwrites[p] <= pposts[p]
    /\ ppc[p] = "returned" =>
         /\ pret[p] \in {Nil, ConvertError} \cup DeliveryErrors \cup SaveErrors
         /\ pret[p] = ConvertError => pposts[p] = 0 /\ pwrites[p] = 0
         /\ pret[p] \in DeliveryErrors => pposts[p] = 1 /\ pwrites[p] = 0
         /\ pret[p] \in SaveErrors => pposts[p] = 1
         /\ pret[p] = Nil => pposts[p] = 1 /\ pwrites[p] = 1

\* the POST failed in transport: one POST, no write, the delivery error
C19_Witness ==
  \E p \in Procs :
    /\ ppc[p] = "returned"
    /\ pret[p] = Wrap("failed sending notification", Err("error making http request"))
    /\ pposts[p] = 1 /\ pwrites[p] = 0

\* the characters of a text: every byte but a continuation byte starts one
IsContinuation(b) == b = "A9"
NumChars(text) ==
  Cardinality({i \in DOMAIN text : ~IsContinuation(text[i])})
\* the first n characters of a text (a character is at most two bytes)
FirstChars(text, n) ==
  IF NumChars(text) <= n THEN text
  ELSE SubSeq(text, 1,
         CHOOSE j \in n..(Len(text) - 1) :
           /\ NumChars(SubSeq(text, 1, j)) = n
           /\ ~IsContinuation(text[j + 1]))

\* C15: the text notify sends is the assembled text when that has at most
\* 4000 characters and its first 4000 characters otherwise, also when
\* characters take more than one byte; no character is split.
C15_LengthBoundInChars ==
  (call = "truncate" /\ res # <<>>) =>
    /\ res[1] = FirstChars(arg, TextLimit)
    /\ res[1] # <<>> => res[1][Len(res[1])] # "C3"

\* white space only, and a '#' in white space only
Blank(s) == \A i \in DOMAIN s : s[i] \in Space
HashOnly(s) ==
  \E i \in DOMAIN s :
    s[i] = "#" /\ \A j \in (DOMAIN s) \ {i} : s[j] \in Space
HrefOf(a) == IF "href" \in DOMAIN a.attrs THEN a.attrs["href"] ELSE <<>>
EmittedPlain == res[1] = [markdown |-> arg.content, skip |-> FALSE]

\* C16 as stated: the anchor is emitted as its inner text, unchanged and
\* without link syntax, exactly when it has no href, or its href is empty,
\* or its href is exactly '#'.
C16_PlainTextIffExact ==
  (call = "anchor" /\ res # <<>>) =>
    (EmittedPlain <=>
       \/ "href" \notin DOMAIN arg.attrs
       \/ HrefOf(arg) = <<>>
       \/ HrefOf(arg) = <<"#">>)

\* C16, amended: the anchor is emitted as its inner text, unchanged and
\* without link syntax, exactly when it has no href, or its href without
\* the white space around it is empty or '#'.
C16_PlainTextIffTrimmed ==
  (call = "anchor" /\ res # <<>>) =>
    (EmittedPlain <=>
       \/ "href" \notin DOMAIN arg.attrs
       \/ Blank(HrefOf(arg))
       \/ HashOnly(HrefOf(arg)))

\* an href of ' # ' gave the inner text
C16_Witness ==
  /\ call = "anchor" /\ res # <<>>
  /\ "href" \in DOMAIN arg.attrs /\ HrefOf(arg) = <<" ", "#", " ">>
  /\ arg.content = <<"t">>
  /\ res[1] = [markdown |-> <<"t">>, skip |-> FALSE]

\* the value an attribute yields, and the text of an emitted link: what
\* stands between the first '|' and the last '>'
Yields(a, name) == AttrOr(a, name, <<>>)
Fallback(a) ==
  IF Yields(a, "title") # <<>> THEN Yields(a, "title")
  ELSE Yields(a, "aria-label")
LinkText(markdown) ==
  LET bar == CHOOSE i \in DOMAIN markdown :
               markdown[i] = "|" /\ \A j \in 1..(i - 1) : markdown[j] # "|"
      close == CHOOSE i \in DOMAIN markdown :
                 markdown[i] = ">"
                   /\ \A j \in (i + 1)..Len(markdown) : markdown[j] # ">"
  IN  SubSeq(markdown, bar + 1, close - 1)

\* C17: an anchor with a usable href and empty inner text is omitted exactly
\* when title and aria-label both yield the empty string; otherwise its
\* link text is the title value, or the aria-label value when the title is
\* empty or missing.
C17_TextFallback ==
  (/\ call = "anchor" /\ res # <<>>
   /\ "href" \in DOMAIN arg.attrs
   /\ ~Blank(HrefOf(arg)) /\ ~HashOnly(HrefOf(arg))
   /\ arg.content = <<>>) =>
    /\ res[1].skip <=> Fallback(arg) = <<>>
    /\ ~res[1].skip => LinkText(res[1].markdown) = Fallback(arg)

\* C20: a second successful save of the same item leaves the store the first
\* one left, and a successful save leaves the other documents and the
\* document's fields it does not write as they were, and sets those it
\* writes.
C20_UpsertIdempotent ==
  call = "save" =>
    /\ (Len(res) = 2 /\ res[1].err = Nil /\ res[2].err = Nil)
         => res[2].store = res[1].store
    /\ \A i \in DOMAIN res :
         res[i].err = Nil =>
           LET before == IF i = 1 THEN arg.st ELSE res[i - 1].store
               x == arg.item.id
           IN  /\ \A y \in Ids \ {x} : res[i].store[y] = before[y]
               /\ \A f \in (DOMAIN before[x]) \ (DOMAIN Record(arg.item)) :
                    /\ f \in DOMAIN res[i].store[x]
                    /\ res[i].store[x][f] = before[x][f]
               /\ \A f \in DOMAIN Record(arg.item) :
                    /\ f \in DOMAIN res[i].store[x]
                    /\ res[i].store[x][f] = Record(arg.item)[f]

\* saved twice over a document with another title and a field save does not
\* write: the title is the item's, the field is kept
C20_Witness ==
  /\ call = "save" /\ Len(res) = 2
  /\ res[1].err = Nil /\ res[2].err = Nil
  /\ "note" \in DOMAIN arg.st[arg.item.id]
  /\ arg.st[arg.item.id].title # arg.item.title
  /\ res[2].store[arg.item.id].note = "n"
  /\ res[2].store[arg.item.id].title = arg.item.title

\* C21: a processChannel invocation whose dedup read found no new entry (the
\* feed has no entries, or every entry has a record) starts no dispatch,
\* leaves the topic as it was and returns nil.
C21_EmptyInputSucceeds ==
  /\ [][\A c \in Chans :
          (DedupStep(c) /\ \A i \in DOMAIN feed'[c] : HasRecord(feed'[c][i].id))
            => items'[c] = <<>> /\ cret'[c] = Nil /\ topic' = topic]_vars
  /\ [](\A c \in Chans :
          (cpc[c] \in {"publish", "loop"} /\ items[c] = <<>>)
            => tasks[c] = <<>> /\ wg[c] = 0 /\ cret[c] = Nil)
  /\ [][\A c \in Chans :
          (cpc[c] \in {"publish", "loop"} /\ items[c] = <<>>
             /\ cpc'[c] = "returned")
            => cret'[c] = Nil /\ tasks'[c] = <<>> /\ topic' = topic]_vars

\* the fan-out over no entries has returned nil, in a store that has a record
C21_Witness ==
  \E c \in Chans :
    /\ cpc[c] = "returned" /\ cret[c] = Nil /\ pubErr[c] = Nil
    /\ items[c] = <<>> /\ tasks[c] = <<>>
    /\ \E x \in Ids : HasRecord(x)

\* ------------------------------------------------------------------- C22
\* the pipeline run as C22 supposes. The topic hands a message to one
\* processItem invocation, and again only after that invocation returned an
\* error (ProcessItemNotify, ProcessItemDone); on top of that:
\* a dedup read covers no entry of which a dispatch is still on its way,
OrderlyProcessChannel(c) ==
  /\ ProcessChannel(c)
  /\ cpc'[c] = "publish"
       => \A i \in DOMAIN feed'[c] : ~InFlight(feed'[c][i].id)
\* and no invocation fails once the webhook has accepted its POST.
OrderlyProcessItemSave(p) ==
  /\ ProcessItemSave(p)
  /\ pret'[p] = Nil

NextOrderly ==
  \/ \E c \in Chans : OrderlyProcessChannel(c)
  \/ \E c \in Chans : PublishItemNewClient(c)
  \/ \E c \in Chans : PublishItemLoop(c)
  \/ \E c \in Chans, i \in 1..(MaxFeedLen), acked \in BOOLEAN :
       PublishResult(c, i, acked)
  \/ \E c \in Chans : PublishItemWait(c)
  \/ \E c \in Chans : ProcessChannelDone(c)
  \/ \E p \in Procs : ProcessItemNotify(p)
  \/ \E p \in Procs : OrderlyProcessItemSave(p)
  \/ \E p \in Procs : ProcessItemDone(p)

SpecOrderly == Init /\ [][NextOrderly]_vars

\* C22: when every dispatched item is delivered and persisted before the next
\* dedup read that covers its entry, and no processItem invocation fails
\* after its delivery, no identifier is delivered to the webhook more than
\* once.
C22_NoDuplicateOutsideWindows == \A x \in Ids : delivered[x] <= 1

\* a second poll has read an entry that the first one dispatched, whose first
\* processItem invocation failed before delivery and whose second delivered
\* and persisted it: nothing is new
C22_Witness ==
  \E c \in Chans : \E x \in Ids :
    /\ polls = 2 /\ attempts = 2
    /\ delivered[x] = 1 /\ HasRecord(x)
    /\ cpc[c] = "publish" /\ x \in Keys(feed[c]) /\ items[c] = <<>>

\* ------------------------------------------------------------------- C23
\* the pipeline running for ever: the scheduler polls every five minutes
\* (main.tf lines 300-315), so invocations are not counted; the entry
\* LiveId stays in the feed.
LiveId == "a"

\* a poll of the feed, which holds the entry (under one title or the other)
LiveProcessChannel(c) ==
  /\ ProcessChannelBody(c)
  /\ cpc'[c] = "publish" => Keys(feed'[c]) = {LiveId}
  /\ UNCHANGED polls

\* a dispatch settles; the topic takes one more copy of a message while it
\* holds at most MaxCopies
LivePublishResult(c, i, acked) ==
  /\ PublishResult(c, i, acked)
  /\ acked => topic[FeedItem(NotifyURL, items[c][i])] <= MaxCopies

\* a processItem invocation up to notify's return; the webhook's count of an
\* entry stops at MaxDelivered
LiveProcessItemNotify(p) ==
  /\ \E m \in Msgs :
     \E outcome \in {"post", "transportErr", "convertErr"} :
     \E code \in Statuses :
       /\ ProcessItemNotifyBody(p, m, outcome, code)
       /\ delivered' = IF Answered200(outcome, code) /\ delivered[m.id] < MaxDelivered
                       THEN [delivered EXCEPT ![m.id] = @ + 1]
                       ELSE delivered
  /\ UNCHANGED attempts

NextLive ==
  \/ \E c \in Chans : LiveProcessChannel(c)
  \/ \E c \in Chans : PublishItemNewClient(c)
  \/ \E c \in Chans : PublishItemLoop(c)
  \/ \E c \in Chans, i \in 1..(MaxFeedLen), acked \in BOOLEAN :
       LivePublishResult(c, i, acked)
  \/ \E c \in Chans : PublishItemWait(c)
  \/ \E c \in Chans : ProcessChannelDone(c)
  \/ \E p \in Procs : LiveProcessItemNotify(p)
  \/ \E p \in Procs : ProcessItemSave(p)
  \/ \E p \in Procs : ProcessItemDone(p)

\* the poll got past its source stage: the event decoded and the feed was
\* fetched and parsed (lines 145-160), so the store read of removeOldItems
\* (line 162) was tried
SourcePassed(c) ==
  \/ cpc'[c] = "publish"
  \/ cpc'[c] = "returned" /\ cret'[c] = Err("failed processing items")

\* notify got past htmlToMarkdown (lines 78-81), so the POST of line 98 was
\* tried
Converted(p) ==
  \/ ppc'[p] = "notified"
  \/ /\ ppc'[p] = "returned"
     /\ pret'[p] # Wrap("failed sending notification",
                        Err("failed converting to markdown"))

\* what C23 supposes, and no more. The functions run: every step of an
\* invocation that has started is taken, the scheduler starts a poll again
\* and again, and events waiting in a topic are handed to the function
\* (weak fairness). The record store, the dispatch transport and the
\* webhook each succeed again and again when tried again and again: the
\* store read when the poll reaches it, the Pub/Sub client and publish, the
\* POST when notify reaches it, the store write. Nothing is supposed of the
\* feed source or of htmlToMarkdown.
FairnessLive ==
  /\ WF_vars(\E c \in Chans : LiveProcessChannel(c))
  /\ ([]<><<\E c \in Chans : LiveProcessChannel(c) /\ SourcePassed(c)>>_vars
        => []<><<\E c \in Chans :
                   LiveProcessChannel(c) /\ cpc'[c] = "publish">>_vars)
  /\ SF_vars(\E c \in Chans : PublishItemNewClient(c) /\ cpc'[c] = "loop")
  /\ WF_vars(\E c \in Chans : PublishItemLoop(c))
  /\ WF_vars(\E c \in Chans, i \in 1..(MaxFeedLen), acked \in BOOLEAN :
               LivePublishResult(c, i, acked))
  /\ SF_vars(\E c \in Chans, i \in 1..(MaxFeedLen) :
               LivePublishResult(c, i, TRUE))
  /\ WF_vars(\E c \in Chans : PublishItemWait(c))
  /\ WF_vars(\E c \in Chans : ProcessChannelDone(c))
  /\ WF_vars(\E p \in Procs : LiveProcessItemNotify(p))
  /\ ([]<><<\E p \in Procs : LiveProcessItemNotify(p) /\ Converted(p)>>_vars
        => []<><<\E p \in Procs :
                   LiveProcessItemNotify(p) /\ ppc'[p] = "notified">>_vars)
  /\ WF_vars(\E p \in Procs : ProcessItemSave(p))
  /\ SF_vars(\E p \in Procs : ProcessItemSave(p) /\ pret'[p] = Nil)
  /\ WF_vars(\E p \in Procs : ProcessItemDone(p))

SpecLive == Init /\ [][NextLive]_vars /\ FairnessLive

\* a dispatch of entry x is acknowledged by the topic
Dispatched(x) ==
  \E c \in Chans : \E i \in DOMAIN tasks[c] :
    /\ items[c][i].id = x
    /\ tasks[c][i] = "pending" /\ tasks'[c][i] = "acked"

\* the feed source and the conversion succeed again and again when tried
\* again and again: a poll gets past event decoding and feed fetch/parse,
\* and notify gets past htmlToMarkdown
SourceAndConversionSucceed ==
  /\ SF_vars(\E c \in Chans : LiveProcessChannel(c) /\ SourcePassed(c))
  /\ SF_vars(\E p \in Procs : LiveProcessItemNotify(p) /\ Converted(p))

\* C23 as stated: the entry that stays in the feed is eventually delivered
\* to the webhook and has a record from some point on, and from some point
\* on it is not dispatched any more. Violated: every poll may fail in the
\* feed fetch, or htmlToMarkdown may fail on every delivery of the event.
C23_EventuallyNotified ==
  /\ <>(delivered[LiveId] >= 1 /\ HasRecord(LiveId))
  /\ <>[](HasRecord(LiveId))
  /\ <>[][~Dispatched(LiveId)]_vars

\* C23, amended: if moreover the feed source and the conversion of the
\* entry's content succeed, the entry that stays in the feed is eventually
\* delivered to the webhook and has a record from some point on, and from
\* some point on it is not dispatched any more.
C23_EventuallyNotifiedGivenSource ==
  SourceAndConversionSucceed =>
    /\ <>(delivered[LiveId] >= 1 /\ HasRecord(LiveId))
    /\ <>[](HasRecord(LiveId))
    /\ <>[][~Dispatched(LiveId)]_vars

\* after a delivery whose save failed and a second delivery, the entry has
\* its record and a later poll finds nothing new
C23_Witness ==
  \E c \in Chans :
    /\ delivered[LiveId] = 2 /\ HasRecord(LiveId)
    /\ cpc[c] = "publish" /\ LiveId \in Keys(feed[c]) /\ items[c] = <<>>

\* ------------------------------------------------------------------- C24
\* the calls of publishChannel that returned nil
PublishedCalls == SelectSeq(lres, LAMBDA r : r.err = Nil)

\* C24: publishChannel is called for one document at a time, in the
\* iterator's order; the topic holds the channels whose call returned nil,
\* in that order, and the log the errors of the others; an error of
\* publishChannel leaves the loop running; and once the invocation has
\* answered, it answered 'Success' and publishChannel was called for every
\* document.
C24_EnumerationSurvivesPublishFailure ==
  /\ [](/\ Len(lres) <= Len(ldocs)
        /\ \A i \in DOMAIN lres : lres[i].channel = ldocs[i]
        /\ lnext = Len(lres) + 1
        /\ ctopic = [i \in 1..Len(PublishedCalls) |-> PublishedCalls[i].channel]
        /\ Len(llog) = Len(lres) - Len(PublishedCalls)
        /\ lresp = "Success" <=> lpc = "answered"
        /\ lpc = "answered" => Len(lres) = Len(ldocs))
  /\ [][(Len(lres') > Len(lres) /\ lres'[Len(lres')].err # Nil)
          => lpc' = "iter" /\ Len(llog') = Len(llog) + 1 /\ ctopic' = ctopic]_vars

\* the publish of the first of two channels failed, the second is in the
\* topic, and the invocation answered
C24_Witness ==
  /\ lpc = "answered" /\ lresp = "Success"
  /\ Len(ldocs) = 2
  /\ lres[1].err = Err("failed to publish") /\ lres[2].err = Nil
  /\ ctopic = <<ldocs[2]>>

====
